---------------------------- MODULE Spec2Model ----------------------------
(***************************************************************************)
(* A model of the ID9 governed runtime                                     *)
(* (src/id9_governed_sdk/id9_governed_sdk/runtime.py): the authority token,*)
(* the execution gate DIR.execute, the receipt chain, the stability        *)
(* tracker Duke, nonce issuance and the callers that run them from         *)
(* several threads.                                                        *)
(*                                                                         *)
(* Threads execute the methods statement by statement; a label "x118"      *)
(* means "about to execute line 118 of runtime.py".  Reals are scaled by   *)
(* 1000 (stability_index 1.0 is 1000).  sha256 and Ed25519 are modelled as *)
(* ideal primitives: a digest is determined by, and determines, the        *)
(* digested content; a signature verifies under a key exactly when it was  *)
(* made with that key over the same payload.                               *)
(***************************************************************************)
EXTENDS Integers, Sequences, FiniteSets, TLC

VARIABLES
    now,             \* the wall clock, int(time.time()), in seconds
    nonce_counter,   \* ID9GovernedRuntime.nonce_counter
    nonce_registry,  \* ID9GovernedRuntime.nonce_registry
    lock,            \* ID9GovernedRuntime.lock: 0 when free, else the holder
    pc,              \* each thread's position
    prog,            \* each thread's program (what its caller runs)
    loc,             \* each thread's local variables
    last,            \* each thread's most recent completed DIR.execute call
    commits,         \* per nonce, how many DIR.execute calls committed it
    tracked,         \* one token, fixed at start, whose calls are followed
    tracked_done,    \* a call with the tracked token has committed
    rejected,        \* the nonces of the tokens DIR.execute has rejected
    returned,        \* the _next_nonce calls that have returned, in order
    receipts,        \* ID9GovernedRuntime.receipts.chain
    proof_receipts,  \* GovernanceProver.proof_receipts.chain
    tampered,        \* the stored field an intruder has altered, if any
    duke,            \* ID9GovernedRuntime.duke: stability_index, alpha, beta
    guard,           \* ContinuityGuardKernel: its three counters
    events           \* how many degrade and recover calls have completed

vars == <<now, nonce_counter, nonce_registry, lock, pc, prog, loc, last,
          commits, tracked, tracked_done, rejected, returned, receipts,
          proof_receipts, tampered, duke, guard, events>>

chain_vars == <<receipts, proof_receipts, tampered>>
duke_vars == <<duke, guard, events>>
gate_obs == <<last, commits, tracked, tracked_done, rejected, returned>>

(***************************************************************************)
(* Bounds of the model.                                                    *)
(***************************************************************************)
MaxTime == 2
MaxNonce == 2
NumCallers == 2
MaxCalls == 3
MaxChain == 3
MaxDukeCalls == 3
MaxDegrades == 4
GuardSteps == 2
NumSims == 3

Threads == DOMAIN pc

(***************************************************************************)
(* Keys.  The runtime owns one key pair; OtherKey is any other key.        *)
(***************************************************************************)
PrivateKey == "runtime-key"
OtherKey == "other-key"
public_key(private_key) == private_key
PublicKey == public_key(PrivateKey)

(***************************************************************************)
(* Digest.                                                                 *)
(***************************************************************************)
sha256_dict(data) == [sha256 |-> data]

Payloads == {1, 2}
\* expires_at of the tokens presented: the clock runs from before it to past it.
Expiries == {1}
Actions == {[intent |-> "test_action", payload |-> p] : p \in Payloads}

(***************************************************************************)
(* AuthorityToken.                                                         *)
(***************************************************************************)
to_dict(token) ==
    [actor |-> token.actor, action_hash |-> token.action_hash,
     tier |-> token.tier, issued_at |-> token.issued_at,
     expires_at |-> token.expires_at, nonce |-> token.nonce]

NoPayload ==
    [actor |-> "", action_hash |-> sha256_dict([intent |-> "", payload |-> 0]),
     tier |-> "T0", issued_at |-> 0, expires_at |-> 0, nonce |-> 0]

\* Byte strings: an Ed25519 signature (64 bytes), 64 zero bytes, b"".
Ed25519Sign(private_key, payload) ==
    [kind |-> "ed25519", signer |-> private_key, msg |-> payload]
ZeroBytes == [kind |-> "zero", signer |-> "", msg |-> NoPayload]
NoBytes == [kind |-> "empty", signer |-> "", msg |-> NoPayload]

\* bytes.hex() writes lower-case digits; bytes.fromhex() also reads
\* upper-case digits (and skips whitespace), and raises ValueError on any
\* other text.
hex(bytes) == [text |-> "lower", bytes |-> bytes]
UpperHex(string) == [string EXCEPT !.text = "upper"]
NonHexSignature == [text |-> "nonhex", bytes |-> NoBytes]
IsHex(string) == string.text \in {"lower", "upper"}
fromhex(string) == string.bytes

\* AuthorityToken.signature's default, "".
EmptySignature == hex(NoBytes)
\* "0" * 128: well-formed hex, 64 bytes, made by no key.
ZeroSignature == hex(ZeroBytes)

sign(token, private_key) ==
    [token EXCEPT !.signature = hex(Ed25519Sign(private_key, to_dict(token)))]

\* public_key.verify(sig_bytes, payload_bytes), line 104
Ed25519Verify(pub, sig_bytes, payload) ==
    /\ sig_bytes.kind = "ed25519"
    /\ public_key(sig_bytes.signer) = pub
    /\ sig_bytes.msg = payload

\* The exception raised inside the try block of lines 101-105, if any.
NoException == ""
Raised(token, pub) ==
    IF ~IsHex(token.signature) THEN "ValueError"
    ELSE IF ~Ed25519Verify(pub, fromhex(token.signature), to_dict(token))
         THEN "InvalidSignature"
         ELSE NoException

\* except (InvalidSignature, Exception), line 106
Caught == {"InvalidSignature", "ValueError"}

verify(token, pub) == Raised(token, pub) = NoException

\* What escapes AuthorityToken.verify to its caller.
verify_raises(token, pub) ==
    IF Raised(token, pub) \in Caught THEN NoException ELSE Raised(token, pub)

AuthorityToken(actor, action_hash, tier, issued_at, expires_at, nonce) ==
    [actor |-> actor, action_hash |-> action_hash, tier |-> tier,
     issued_at |-> issued_at, expires_at |-> expires_at, nonce |-> nonce,
     signature |-> EmptySignature]

NoToken == AuthorityToken("", NoPayload.action_hash, "T0", 0, 0, 0)
NoAction == [intent |-> "", payload |-> 0]

(***************************************************************************)
(* The tokens a caller of DIR.execute may present: any fields, signed by   *)
(* the runtime, signed by another key, or carrying the all-zero signature. *)
(***************************************************************************)
UnsignedTokens ==
    {AuthorityToken("trusted_agent", sha256_dict(a), "T1", 0, e, n) :
        a \in Actions, e \in Expiries, n \in 1..MaxNonce}

TokenInputs ==
    {sign(u, k) : u \in UnsignedTokens, k \in {PrivateKey, OtherKey}}
    \cup {[u EXCEPT !.signature = ZeroSignature] : u \in UnsignedTokens}

(***************************************************************************)
(* DIR.execute, lines 114-125: the four checks and the commit.             *)
(***************************************************************************)
InvalidSignature == "Invalid signature"
ReplayDetected == "Replay detected"
TokenExpired == "Token expired"
ActionMismatch == "Action mismatch"
ExecutionCommitted == "Execution committed"

SignatureInvalid(token, pub) == ~verify(token, pub)
\* (mutant) the replay check is missing
Replayed_Never(token, registry) == FALSE
Replayed(token, registry) == token.nonce \in registry
\* (mutant) a token is refused already at its deadline
Expired_AtDeadline(time, token) == time >= token.expires_at
Expired(time, token) == time > token.expires_at
\* (mutant) the action is not compared with the token
Mismatch_Never(action, token) == FALSE
Mismatch(action, token) == token.action_hash # sha256_dict(action)
RegistryAdd(registry, token) == registry \cup {token.nonce}

NoTamper == [index |-> 0, field |-> ""]

(***************************************************************************)
(* Duke.__init__, lines 44-47, and ContinuityGuardKernel.__init__, lines   *)
(* 232-236.  stability_index is in thousandths.                            *)
(***************************************************************************)
StabilityMax == 1000
AlphaStart == 10
BetaStart == 1

Duke ==
    [stability_index |-> StabilityMax, alpha |-> AlphaStart,
     beta |-> BetaStart]

ContinuityGuardKernel ==
    [step_count |-> 0, continuities_maintained |-> 0,
     anomalies_detected |-> 0]

NoEvents == [degrade |-> 0, recover |-> 0]

(***************************************************************************)
(* Receipt chain entries, lines 136-139.  The first entry's previous_hash  *)
(* is the string "GENESIS", which is not a digest.                         *)
(***************************************************************************)
Genesis == [sentinel |-> "GENESIS"]

Entry(timestamp, record, previous_hash) ==
    [timestamp |-> timestamp, record |-> record,
     previous_hash |-> previous_hash,
     hash |-> sha256_dict([timestamp |-> timestamp, record |-> record,
                           previous_hash |-> previous_hash])]

NoEntry ==
    [timestamp |-> -1, record |-> "", previous_hash |-> Genesis,
     hash |-> Genesis]

NoLocals ==
    [action |-> NoAction, token |-> NoToken, before |-> {}, time |-> -1,
     again |-> FALSE, tmp |-> 0, floor |-> 0,
     target |-> "", record |-> "", entry |-> NoEntry,
     cont |-> "", amount |-> 0, i |-> 0, is_adversarial |-> FALSE,
     byzantine |-> FALSE, success |-> FALSE, stability_ok |-> FALSE,
     nonce |-> 0, tier |-> "T0", key |-> "", raised |-> "",
     a |-> 0, n |-> 0, old |-> 0, risk_class |-> "", confidence |-> 0]

NoCall ==
    [token |-> NoToken, action |-> NoAction, before |-> {}, after |-> {},
     time |-> -1, again |-> FALSE, committed |-> FALSE, reason |-> ""]

\* DIR.execute returns (committed, reason) to its caller: a caller that
\* only submits tokens, or _simulate_intent (line 188).
Return(t, committed, reason, time, after) ==
    IF prog[t] \in {"gate", "race"}
    THEN /\ pc' = [pc EXCEPT ![t] = IF prog[t] = "gate" THEN "idle"
                                                        ELSE "done"]
         /\ loc' = [loc EXCEPT ![t] = NoLocals]
         /\ last' = [last EXCEPT ![t] =
                       [token |-> loc[t].token, action |-> loc[t].action,
                        before |-> loc[t].before, after |-> after,
                        time |-> time, again |-> loc[t].again,
                        committed |-> committed, reason |-> reason]]
         /\ rejected' = IF committed THEN rejected
                                    ELSE rejected \cup {loc[t].token.nonce}
    ELSE /\ pc' = [pc EXCEPT ![t] = loc[t].cont]
         /\ loc' = [loc EXCEPT ![t].success = committed,
                               ![t].token = NoToken,
                               ![t].action = NoAction,
                               ![t].before = {}, ![t].time = -1]
         /\ UNCHANGED <<last, rejected>>

\* A caller invokes DIR.execute(action, token, nonce_registry, public_key).
GateCall(t) ==
    /\ pc[t] = "idle"
    /\ prog[t] = "gate"
    /\ \E action \in Actions, token \in TokenInputs :
          loc' = [loc EXCEPT ![t] =
                    [NoLocals EXCEPT !.action = action, !.token = token,
                                     !.before = nonce_registry,
                                     !.time = now,
                                     !.again = (token = tracked /\ tracked_done)]]
    /\ pc' = [pc EXCEPT ![t] = "x116"]
    /\ last' = [last EXCEPT ![t] = NoCall]
    /\ UNCHANGED <<duke_vars, chain_vars, now, nonce_counter, nonce_registry, lock, prog,
                   commits, tracked, tracked_done, rejected, returned>>

\* (mutant) the replay check runs before the signature check
X116_ReplayFirst(t) ==
    /\ pc[t] = "x116"
    /\ IF Replayed(loc[t].token, nonce_registry)
          THEN Return(t, FALSE, ReplayDetected, loc[t].time, nonce_registry)
          ELSE IF SignatureInvalid(loc[t].token, PublicKey)
          THEN Return(t, FALSE, InvalidSignature, loc[t].time, nonce_registry)
          ELSE pc' = [pc EXCEPT ![t] = "x118"] /\ UNCHANGED <<loc, last, rejected>>
    /\ UNCHANGED <<duke_vars, chain_vars, now, nonce_counter, nonce_registry, lock, prog,
                   commits, tracked, tracked_done, returned>>

X116(t) ==
    /\ pc[t] = "x116"
    /\ IF SignatureInvalid(loc[t].token, PublicKey)
          THEN Return(t, FALSE, InvalidSignature, loc[t].time, nonce_registry)
          ELSE pc' = [pc EXCEPT ![t] = "x118"] /\ UNCHANGED <<loc, last, rejected>>
    /\ UNCHANGED <<duke_vars, chain_vars, now, nonce_counter, nonce_registry, lock, prog,
                   commits, tracked, tracked_done, returned>>

X118(t) ==
    /\ pc[t] = "x118"
    /\ IF Replayed(loc[t].token, nonce_registry)
          THEN Return(t, FALSE, ReplayDetected, loc[t].time, nonce_registry)
          ELSE pc' = [pc EXCEPT ![t] = "x120"] /\ UNCHANGED <<loc, last, rejected>>
    /\ UNCHANGED <<duke_vars, chain_vars, now, nonce_counter, nonce_registry, lock, prog,
                   commits, tracked, tracked_done, returned>>

\* (mutant) the nonce is recorded before the expiry check
X120_ConsumesNonce(t) ==
    /\ pc[t] = "x120"
    /\ nonce_registry' = RegistryAdd(nonce_registry, loc[t].token)
    /\ IF Expired(now, loc[t].token)
          THEN Return(t, FALSE, TokenExpired, now,
                      RegistryAdd(nonce_registry, loc[t].token))
          ELSE /\ pc' = [pc EXCEPT ![t] = "x122"]
               /\ loc' = [loc EXCEPT ![t].time = now]
               /\ UNCHANGED <<last, rejected>>
    /\ UNCHANGED <<duke_vars, chain_vars, now, nonce_counter, lock, prog,
                   commits, tracked, tracked_done, returned>>

X120(t) ==
    /\ pc[t] = "x120"
    /\ IF Expired(now, loc[t].token)
          THEN Return(t, FALSE, TokenExpired, now, nonce_registry)
          ELSE /\ pc' = [pc EXCEPT ![t] = "x122"]
               /\ loc' = [loc EXCEPT ![t].time = now]
               /\ UNCHANGED <<last, rejected>>
    /\ UNCHANGED <<duke_vars, chain_vars, now, nonce_counter, nonce_registry, lock, prog,
                   commits, tracked, tracked_done, returned>>

X122(t) ==
    /\ pc[t] = "x122"
    /\ IF Mismatch(loc[t].action, loc[t].token)
          THEN Return(t, FALSE, ActionMismatch, loc[t].time, nonce_registry)
          ELSE pc' = [pc EXCEPT ![t] = "x124"] /\ UNCHANGED <<loc, last, rejected>>
    /\ UNCHANGED <<duke_vars, chain_vars, now, nonce_counter, nonce_registry, lock, prog,
                   commits, tracked, tracked_done, returned>>

X124(t) ==
    /\ pc[t] = "x124"
    /\ nonce_registry' = RegistryAdd(nonce_registry, loc[t].token)
    /\ commits' = [commits EXCEPT ![loc[t].token.nonce] = @ + 1]
    /\ tracked_done' = (tracked_done \/ loc[t].token = tracked)
    /\ Return(t, TRUE, ExecutionCommitted, loc[t].time,
              RegistryAdd(nonce_registry, loc[t].token))
    /\ UNCHANGED <<duke_vars, chain_vars, now, nonce_counter, lock, prog, tracked, returned>>

\* time.time() advances.
Tick ==
    /\ now < MaxTime
    /\ now' = now + 1
    /\ UNCHANGED <<duke_vars, chain_vars, nonce_counter, nonce_registry, lock, pc, prog, loc, last,
                   commits, tracked, tracked_done, rejected, returned>>

(***************************************************************************)
(* SpecGate: one caller makes DIR.execute calls one after another, with    *)
(* any action and any token, on the runtime's registry.                    *)
(***************************************************************************)
InitGate ==
    /\ now = 0
    /\ nonce_counter = 0
    /\ nonce_registry = {}
    /\ lock = 0
    /\ pc = [t \in {1} |-> "idle"]
    /\ prog = [t \in {1} |-> "gate"]
    /\ loc = [t \in {1} |-> NoLocals]
    /\ last = [t \in {1} |-> NoCall]
    /\ commits = [n \in 1..MaxNonce |-> 0]
    /\ tracked \in {sign(u, PrivateKey) : u \in UnsignedTokens}
    /\ tracked_done = FALSE
    /\ rejected = {}
    /\ returned = <<>>
    /\ receipts = <<>>
    /\ proof_receipts = <<>>
    /\ tampered = NoTamper
    /\ duke = Duke
    /\ guard = ContinuityGuardKernel
    /\ events = NoEvents

NextGate ==
    \/ \E t \in Threads : GateCall(t)
    \/ \E t \in Threads : X116(t)
    \/ \E t \in Threads : X118(t)
    \/ \E t \in Threads : X120(t)
    \/ \E t \in Threads : X122(t)
    \/ \E t \in Threads : X124(t)
    \/ Tick

SpecGate == InitGate /\ [][NextGate]_vars

(***************************************************************************)
(* Properties of DIR.execute in sequential use (SpecGate).  last[1] is the *)
(* call that has just returned: its token and action, the registry before  *)
(* and after it, the time it read at line 120 (the time it was made when   *)
(* it returned before reading the clock) and what it returned.             *)
(***************************************************************************)
Completed == last[1].reason # ""

\* C2: a token is single-use in sequential use.  The first DIR.execute call
\* with a valid token (runtime signature, fresh nonce, unexpired, matching
\* action) commits and grows the registry by exactly one entry; every later
\* call with a token that has committed is rejected with "Replay detected"
\* (the code's spelling of the reason) and leaves the registry as it was;
\* no nonce is committed more than once.
C2_SingleUse ==
    /\ \A n \in DOMAIN commits : commits[n] <= 1
    /\ Completed =>
        /\ last[1].again =>
              /\ ~last[1].committed
              /\ last[1].reason = "Replay detected"
              /\ last[1].after = last[1].before
        /\ ( /\ last[1].token.signature =
                    hex(Ed25519Sign(PrivateKey, to_dict(last[1].token)))
             /\ last[1].token.nonce \notin last[1].before
             /\ last[1].time <= last[1].token.expires_at
             /\ last[1].token.action_hash = [sha256 |-> last[1].action] )
              => /\ last[1].committed
                 /\ Cardinality(last[1].after) = Cardinality(last[1].before) + 1

\* C2 witness: the tracked token committed once and its second submission
\* has just been rejected as a replay.
C2_Witness ==
    /\ Completed
    /\ last[1].again
    /\ last[1].token = tracked
    /\ last[1].reason = "Replay detected"
    /\ commits[tracked.nonce] = 1
    /\ Cardinality(nonce_registry) = 1

\* C3: DIR.execute checks signature, replay, expiry, action hash in this
\* order and returns the reason of the first failing check; the five
\* reasons are pairwise distinct; it commits iff all four checks pass.
C3_FirstFailingCheck ==
    /\ Cardinality({InvalidSignature, ReplayDetected, TokenExpired,
                    ActionMismatch, ExecutionCommitted}) = 5
    /\ Completed =>
        LET tok == last[1].token
            bad_sig == tok.signature # hex(Ed25519Sign(PrivateKey, to_dict(tok)))
            replay == tok.nonce \in last[1].before
            expired == last[1].time > tok.expires_at
            mismatch == tok.action_hash # [sha256 |-> last[1].action]
        IN  /\ bad_sig => last[1].reason = "Invalid signature"
            /\ (~bad_sig /\ replay) => last[1].reason = "Replay detected"
            /\ (~bad_sig /\ ~replay /\ expired)
                  => last[1].reason = "Token expired"
            /\ (~bad_sig /\ ~replay /\ ~expired /\ mismatch)
                  => last[1].reason = "Action mismatch"
            /\ (~bad_sig /\ ~replay /\ ~expired /\ ~mismatch)
                  => last[1].reason = "Execution committed"
            /\ last[1].committed <=> last[1].reason = "Execution committed"
            /\ last[1].committed <=>
                  (~bad_sig /\ ~replay /\ ~expired /\ ~mismatch)

\* C3 witness: a token with a bad signature whose nonce is already in the
\* registry, which was expired when submitted and names another action, is
\* reported as "Invalid signature".
C3_Witness ==
    /\ Completed
    /\ last[1].token.signature = ZeroSignature
    /\ last[1].token.nonce \in last[1].before
    /\ last[1].time > last[1].token.expires_at
    /\ last[1].token.action_hash # [sha256 |-> last[1].action]
    /\ last[1].reason = "Invalid signature"

\* C4: DIR.execute changes the registry only when it commits: a rejected
\* call leaves it unchanged, a committed call adds exactly the token's
\* nonce; across every step the registry only grows.
C4_RegistryFrame ==
    /\ [](Completed =>
            /\ ~last[1].committed => last[1].after = last[1].before
            /\ last[1].committed =>
                  /\ last[1].token.nonce \notin last[1].before
                  /\ last[1].after = last[1].before \cup {last[1].token.nonce}
            /\ last[1].after = nonce_registry)
    /\ [][nonce_registry \subseteq nonce_registry']_vars

\* C4 witness: a nonce that was carried by a rejected token has just been
\* committed by a later, valid token.
C4_Witness ==
    /\ Completed
    /\ last[1].committed
    /\ last[1].token.nonce \in rejected
    /\ last[1].after = last[1].before \cup {last[1].token.nonce}

\* C10: expiry is strict.  A token with a valid signature and a fresh nonce
\* is rejected with "Token expired" exactly when the time read at the gate
\* is greater than expires_at; at time = expires_at with a matching action
\* it commits; the rejection leaves the registry unchanged.
C10_StrictExpiry ==
    (Completed
       /\ last[1].token.signature = hex(Ed25519Sign(PrivateKey, to_dict(last[1].token)))
       /\ last[1].token.nonce \notin last[1].before)
    => /\ last[1].reason = "Token expired" <=> last[1].time > last[1].token.expires_at
       /\ last[1].reason = "Token expired" => last[1].after = last[1].before
       /\ ( /\ last[1].time = last[1].token.expires_at
            /\ last[1].token.action_hash = [sha256 |-> last[1].action] )
             => last[1].committed

\* C10 witness: a token submitted in the very second it expires commits.
C10_Witness ==
    /\ Completed
    /\ last[1].time = last[1].token.expires_at
    /\ last[1].time > 0
    /\ last[1].committed

\* C11: a token is bound to its action.  When DIR.execute is given an
\* action that differs from the one whose digest the token carries, and the
\* token has the runtime's signature, an unused nonce and has not expired,
\* the call is rejected with "Action mismatch", does not commit and leaves
\* the registry unchanged; a call that commits was given the very action
\* the token was issued for.
C11_ActionBinding ==
    Completed =>
       /\ ( /\ last[1].token.signature
                  = hex(Ed25519Sign(PrivateKey, to_dict(last[1].token)))
            /\ last[1].token.nonce \notin last[1].before
            /\ last[1].time <= last[1].token.expires_at
            /\ last[1].action # last[1].token.action_hash.sha256 )
          => /\ last[1].reason = "Action mismatch"
             /\ ~last[1].committed
             /\ last[1].after = last[1].before
             /\ last[1].token.nonce \notin nonce_registry
       /\ last[1].committed
             => last[1].token.action_hash.sha256 = last[1].action

\* C11 witness: a runtime-signed, unexpired token with an unused nonce was
\* submitted with another action than its own and rejected for that; its
\* nonce is still unused.
C11_Witness ==
    /\ Completed
    /\ last[1].reason = "Action mismatch"
    /\ last[1].token.signature = hex(Ed25519Sign(PrivateKey, to_dict(last[1].token)))
    /\ last[1].action \in Actions
    /\ last[1].action # last[1].token.action_hash.sha256
    /\ last[1].token.nonce \notin nonce_registry

(***************************************************************************)
(* SpecRace: NumCallers threads each call DIR.execute once, at the same    *)
(* time, on the runtime's registry.  Their tokens are signed by the        *)
(* runtime, do not expire while the clock runs, match the action submitted *)
(* and all bear nonce 1, which the registry does not hold.  DIR.execute    *)
(* takes no lock, and neither does its caller (line 188).                  *)
(***************************************************************************)
RaceToken(action) ==
    sign(AuthorityToken("trusted_agent", sha256_dict(action), "T1", 0,
                        MaxTime, 1), PrivateKey)

RaceCall(t) ==
    /\ pc[t] = "start"
    /\ prog[t] = "race"
    /\ loc' = [loc EXCEPT ![t].before = nonce_registry, ![t].time = now]
    /\ pc' = [pc EXCEPT ![t] = "x116"]
    /\ UNCHANGED <<duke_vars, chain_vars, now, nonce_counter, nonce_registry, lock, prog, last,
                   commits, tracked, tracked_done, rejected, returned>>

InitRace ==
    /\ now = 0
    /\ nonce_counter = 0
    /\ nonce_registry = {}
    /\ lock = 0
    /\ pc = [t \in 1..NumCallers |-> "start"]
    /\ prog = [t \in 1..NumCallers |-> "race"]
    /\ loc \in [1..NumCallers ->
                  {[NoLocals EXCEPT !.action = a, !.token = RaceToken(a)] :
                      a \in Actions}]
    /\ last = [t \in 1..NumCallers |-> NoCall]
    /\ commits = [n \in 1..MaxNonce |-> 0]
    /\ tracked = NoToken
    /\ tracked_done = FALSE
    /\ rejected = {}
    /\ returned = <<>>
    /\ receipts = <<>>
    /\ proof_receipts = <<>>
    /\ tampered = NoTamper
    /\ duke = Duke
    /\ guard = ContinuityGuardKernel
    /\ events = NoEvents

NextRace ==
    \/ \E t \in Threads : RaceCall(t)
    \/ \E t \in Threads : X116(t)
    \/ \E t \in Threads : X118(t)
    \/ \E t \in Threads : X120(t)
    \/ \E t \in Threads : X122(t)
    \/ \E t \in Threads : X124(t)
    \/ Tick

SpecRace == InitRace /\ [][NextRace]_vars

\* C1: when the concurrent calls with the same nonce have all returned,
\* exactly one returned committed = true, every other returned the reason
\* "Replay detected", and the registry holds exactly one new entry.
C1_ExactlyOneCommits ==
    (\A t \in Threads : pc[t] = "done") =>
        /\ Cardinality({t \in Threads : last[t].committed}) = 1
        /\ \A t \in Threads :
              ~last[t].committed => last[t].reason = "Replay detected"
        /\ nonce_registry = {1}

(***************************************************************************)
(* ID9GovernedRuntime._next_nonce, lines 308-311, statement by statement.  *)
(* "self.nonce_counter += 1" reads the attribute and then writes it.  The  *)
(* value returned is read inside the with block; the lock is released as   *)
(* the block is left, and only then does the call return to its caller.    *)
(***************************************************************************)
InFlight ==
    {t \in Threads : prog[t] = "issuer" /\ pc[t] \notin {"idle", "start", "done"}}

Max(S) == IF S = {} THEN 0 ELSE CHOOSE x \in S : \A y \in S : y <= x

ReturnedValues == {returned[i].value : i \in 1..Len(returned)}

\* A caller invokes _next_nonce(); floor is the largest value any call had
\* returned by then.
NonceCall(t) ==
    /\ pc[t] = "idle"
    /\ prog[t] = "issuer"
    /\ Len(returned) + Cardinality(InFlight) < MaxCalls
    /\ loc' = [loc EXCEPT ![t].floor = Max(ReturnedValues)]
    /\ pc' = [pc EXCEPT ![t] = "n309"]
    /\ UNCHANGED <<duke_vars, chain_vars, now, nonce_counter, nonce_registry, lock, prog, last,
                   commits, tracked, tracked_done, rejected, returned>>

\* (mutant) the with block is entered without waiting for the lock
N309_NoLock(t) ==
    /\ pc[t] = "n309"
    /\ pc' = [pc EXCEPT ![t] = "n310"]
    /\ UNCHANGED <<duke_vars, chain_vars, now, nonce_counter, nonce_registry, lock, prog, loc, last,
                   commits, tracked, tracked_done, rejected, returned>>

\* with self.lock: (acquire)
N309(t) ==
    /\ pc[t] = "n309"
    /\ lock = 0
    /\ lock' = t
    /\ pc' = [pc EXCEPT ![t] = "n310"]
    /\ UNCHANGED <<duke_vars, chain_vars, now, nonce_counter, nonce_registry, prog, loc, last,
                   commits, tracked, tracked_done, rejected, returned>>

\* self.nonce_counter += 1 (the read)
N310(t) ==
    /\ pc[t] = "n310"
    /\ loc' = [loc EXCEPT ![t].tmp = nonce_counter]
    /\ pc' = [pc EXCEPT ![t] = "n310w"]
    /\ UNCHANGED <<duke_vars, chain_vars, now, nonce_counter, nonce_registry, lock, prog, last,
                   commits, tracked, tracked_done, rejected, returned>>

\* self.nonce_counter += 1 (the write)
N310w(t) ==
    /\ pc[t] = "n310w"
    /\ nonce_counter' = loc[t].tmp + 1
    /\ pc' = [pc EXCEPT ![t] = "n311"]
    /\ UNCHANGED <<duke_vars, chain_vars, now, nonce_registry, lock, prog, loc, last,
                   commits, tracked, tracked_done, rejected, returned>>

\* return self.nonce_counter (the value is read)
N311(t) ==
    /\ pc[t] = "n311"
    /\ loc' = [loc EXCEPT ![t].tmp = nonce_counter]
    /\ pc' = [pc EXCEPT ![t] = "n311x"]
    /\ UNCHANGED <<duke_vars, chain_vars, now, nonce_counter, nonce_registry, lock, prog, last,
                   commits, tracked, tracked_done, rejected, returned>>

\* the with block is left: the lock is released
N311x(t) ==
    /\ pc[t] = "n311x"
    /\ lock' = 0
    /\ pc' = [pc EXCEPT ![t] = "n311r"]
    /\ UNCHANGED <<duke_vars, chain_vars, now, nonce_counter, nonce_registry, prog, loc, last,
                   commits, tracked, tracked_done, rejected, returned>>

\* the call returns its value to the caller
N311r(t) ==
    /\ pc[t] = "n311r"
    /\ IF prog[t] = "issuer"
          THEN /\ returned' =
                     Append(returned, [value |-> loc[t].tmp,
                                       floor |-> loc[t].floor, thread |-> t])
               /\ loc' = [loc EXCEPT ![t] = NoLocals]
               /\ pc' = [pc EXCEPT ![t] = "idle"]
          ELSE /\ loc' = [loc EXCEPT ![t].nonce = loc[t].tmp, ![t].tmp = 0]
               /\ pc' = [pc EXCEPT ![t] = loc[t].cont]
               /\ UNCHANGED returned
    /\ UNCHANGED <<duke_vars, chain_vars, now, nonce_counter, nonce_registry,
                   lock, prog, last, commits, tracked, tracked_done, rejected>>

(***************************************************************************)
(* SpecNonce: NumCallers threads call _next_nonce, MaxCalls calls in all.  *)
(***************************************************************************)
InitNonce ==
    /\ now = 0
    /\ nonce_counter = 0
    /\ nonce_registry = {}
    /\ lock = 0
    /\ pc = [t \in 1..NumCallers |-> "idle"]
    /\ prog = [t \in 1..NumCallers |-> "issuer"]
    /\ loc = [t \in 1..NumCallers |-> NoLocals]
    /\ last = [t \in 1..NumCallers |-> NoCall]
    /\ commits = [n \in 1..MaxNonce |-> 0]
    /\ tracked = NoToken
    /\ tracked_done = FALSE
    /\ rejected = {}
    /\ returned = <<>>
    /\ receipts = <<>>
    /\ proof_receipts = <<>>
    /\ tampered = NoTamper
    /\ duke = Duke
    /\ guard = ContinuityGuardKernel
    /\ events = NoEvents

NextNonce ==
    \/ \E t \in Threads : NonceCall(t)
    \/ \E t \in Threads : N309(t)
    \/ \E t \in Threads : N310(t)
    \/ \E t \in Threads : N310w(t)
    \/ \E t \in Threads : N311(t)
    \/ \E t \in Threads : N311x(t)
    \/ \E t \in Threads : N311r(t)

SpecNonce == InitNonce /\ [][NextNonce]_vars

\* C5 as stated: no two calls return the same value, each returned value is
\* greater than every value returned by a call that completed (returned)
\* earlier, and once k calls have completed and none is in progress the
\* counter is k and the values returned are exactly 1..k.
C5_CompletionOrder ==
    /\ \A i, j \in 1..Len(returned) :
          i < j => returned[i].value < returned[j].value
    /\ InFlight = {} =>
          /\ nonce_counter = Len(returned)
          /\ ReturnedValues = 1..Len(returned)

\* C5 amended: no two calls return the same value, each returned value is
\* greater than every value returned by a call that had completed when this
\* call was made (and than every value the same thread got before), and
\* once k calls have completed and none is in progress the counter is k and
\* the values returned are exactly 1..k.
C5_UniqueIncreasing ==
    /\ \A i, j \in 1..Len(returned) :
          /\ i # j => returned[i].value # returned[j].value
          /\ (i < j /\ returned[i].thread = returned[j].thread)
                => returned[i].value < returned[j].value
    /\ \A i \in 1..Len(returned) :
          /\ returned[i].value > returned[i].floor
          /\ returned[i].value \in 1..nonce_counter
    /\ InFlight = {} =>
          /\ nonce_counter = Len(returned)
          /\ ReturnedValues = 1..Len(returned)

\* C5 witness: all MaxCalls calls have returned, made by more than one
\* thread, and a later call completed before an earlier-served one.
C5_Witness ==
    /\ Len(returned) = MaxCalls
    /\ InFlight = {}
    /\ \E i, j \in 1..Len(returned) :
          /\ i < j
          /\ returned[i].thread # returned[j].thread
          /\ returned[i].value > returned[j].value

(***************************************************************************)
(* ReceiptChain, lines 131-146.  append reads the last entry's hash (136), *)
(* builds the entry with the current time and its digest (137-139) and     *)
(* appends it to the list (140).  It takes no lock itself.                 *)
(***************************************************************************)
Records == {"receipt-a", "receipt-b"}

\* (mutant) the hash of the first entry is taken instead of the last one's
LastHash_First(chain) == IF chain # <<>> THEN chain[1].hash ELSE Genesis
LastHash(chain) == IF chain # <<>> THEN chain[Len(chain)].hash ELSE Genesis

ReceiptChain_verify(chain) ==
    \A i \in 2..Len(chain) : chain[i].previous_hash = chain[i-1].hash

ChainOf(target) == IF target = "receipts" THEN receipts ELSE proof_receipts

\* A caller invokes runtime.receipts.append(record).
ChainCall(t) ==
    /\ pc[t] = "idle"
    /\ prog[t] = "appender"
    /\ tampered = NoTamper
    /\ Len(receipts) < MaxChain
    /\ \E record \in Records :
          loc' = [loc EXCEPT ![t].target = "receipts", ![t].record = record]
    /\ pc' = [pc EXCEPT ![t] = "a136"]
    /\ UNCHANGED <<duke_vars, chain_vars, now, nonce_counter, nonce_registry, lock, prog,
                   last, commits, tracked, tracked_done, rejected, returned>>

\* previous_hash = self.chain[-1]["hash"] if self.chain else "GENESIS"
A136(t) ==
    /\ pc[t] = "a136"
    /\ loc' = [loc EXCEPT ![t].entry.previous_hash =
                             LastHash(ChainOf(loc[t].target))]
    /\ pc' = [pc EXCEPT ![t] = "a137"]
    /\ UNCHANGED <<duke_vars, chain_vars, now, nonce_counter, nonce_registry, lock, prog,
                   last, commits, tracked, tracked_done, rejected, returned>>

\* payload = {"timestamp": time.time(), ...}; payload["hash"] = its digest
A137(t) ==
    /\ pc[t] = "a137"
    /\ loc' = [loc EXCEPT ![t].entry =
                 Entry(now, loc[t].record, loc[t].entry.previous_hash)]
    /\ pc' = [pc EXCEPT ![t] = "a140"]
    /\ UNCHANGED <<duke_vars, chain_vars, now, nonce_counter, nonce_registry, lock, prog,
                   last, commits, tracked, tracked_done, rejected, returned>>

\* self.chain.append(payload); append returns to its caller
A140(t) ==
    /\ pc[t] = "a140"
    /\ IF loc[t].target = "receipts"
          THEN /\ receipts' = Append(receipts, loc[t].entry)
               /\ UNCHANGED proof_receipts
          ELSE /\ proof_receipts' = Append(proof_receipts, loc[t].entry)
               /\ UNCHANGED receipts
    /\ IF prog[t] = "appender"
          THEN /\ pc' = [pc EXCEPT ![t] = "idle"]
               /\ loc' = [loc EXCEPT ![t] = NoLocals]
          ELSE /\ pc' = [pc EXCEPT ![t] = loc[t].cont]
               /\ loc' = [loc EXCEPT ![t].entry = NoEntry,
                                     ![t].record = "", ![t].target = ""]
    /\ UNCHANGED <<duke_vars, tampered, now, nonce_counter, nonce_registry,
                   lock, prog, last, commits, tracked, tracked_done, rejected,
                   returned>>

(***************************************************************************)
(* An intruder alters one stored field of one entry of the runtime's       *)
(* chain, once, while no append is in progress.                            *)
(***************************************************************************)
ForgedHash == sha256_dict([forged |-> TRUE])

Altered(entry, field) ==
    CASE field = "timestamp" ->
            [entry EXCEPT !.timestamp = entry.timestamp + 1]
      [] field = "record" ->
            [entry EXCEPT !.record = "forged"]
      [] field = "previous_hash" ->
            [entry EXCEPT !.previous_hash = ForgedHash]
      [] field = "hash" ->
            [entry EXCEPT !.hash = ForgedHash]

Tamper ==
    /\ tampered = NoTamper
    /\ \A t \in Threads : pc[t] = "idle"
    /\ \E i \in 1..Len(receipts),
          field \in {"timestamp", "record", "previous_hash", "hash"} :
          /\ receipts' = [receipts EXCEPT ![i] = Altered(receipts[i], field)]
          /\ tampered' = [index |-> i, field |-> field]
    /\ UNCHANGED <<duke_vars, proof_receipts, now, nonce_counter,
                   nonce_registry, lock,
                   pc, prog, loc, last, commits, tracked, tracked_done,
                   rejected, returned>>

(***************************************************************************)
(* SpecChain: one caller appends to the runtime's chain, one record after  *)
(* another.  SpecTamper: the same, and then one stored field is altered.   *)
(***************************************************************************)
InitChain ==
    /\ now = 0
    /\ nonce_counter = 0
    /\ nonce_registry = {}
    /\ lock = 0
    /\ pc = [t \in {1} |-> "idle"]
    /\ prog = [t \in {1} |-> "appender"]
    /\ loc = [t \in {1} |-> NoLocals]
    /\ last = [t \in {1} |-> NoCall]
    /\ commits = [n \in 1..MaxNonce |-> 0]
    /\ tracked = NoToken
    /\ tracked_done = FALSE
    /\ rejected = {}
    /\ returned = <<>>
    /\ receipts = <<>>
    /\ proof_receipts = <<>>
    /\ tampered = NoTamper
    /\ duke = Duke
    /\ guard = ContinuityGuardKernel
    /\ events = NoEvents

NextChain ==
    \/ \E t \in Threads : ChainCall(t)
    \/ \E t \in Threads : A136(t)
    \/ \E t \in Threads : A137(t)
    \/ \E t \in Threads : A140(t)
    \/ Tick

SpecChain == InitChain /\ [][NextChain]_vars

NextTamper ==
    \/ \E t \in Threads : ChainCall(t)
    \/ \E t \in Threads : A136(t)
    \/ \E t \in Threads : A137(t)
    \/ \E t \in Threads : A140(t)
    \/ Tick
    \/ Tamper

SpecTamper == InitChain /\ [][NextTamper]_vars

\* The first link at which verify() finds a break: the least i with
\* chain[i].previous_hash # chain[i-1].hash, or 0 when there is none.
FirstBreak(chain) ==
    LET bad == {i \in 2..Len(chain) :
                   chain[i].previous_hash # chain[i-1].hash}
    IN  IF bad = {} THEN 0 ELSE CHOOSE i \in bad : \A j \in bad : i <= j

\* C8: after any number of sequential appends the first entry's
\* previous_hash is the GENESIS sentinel, every later entry's previous_hash
\* is the stored hash of the entry before it, verify() is true; and each
\* append lengthens the chain by exactly one entry and changes no earlier
\* entry.
C8_ChainLinked ==
    /\ [](/\ Len(receipts) >= 1 => receipts[1].previous_hash = Genesis
          /\ \A i \in 2..Len(receipts) :
                receipts[i].previous_hash = receipts[i-1].hash
          /\ ReceiptChain_verify(receipts))
    /\ [][receipts' # receipts =>
             /\ Len(receipts') = Len(receipts) + 1
             /\ SubSeq(receipts', 1, Len(receipts)) = receipts]_vars

\* C8 witness: MaxChain appends have been made and the chain verifies.
C8_Witness ==
    /\ Len(receipts) = MaxChain
    /\ Len(receipts) >= 3
    /\ pc[1] = "idle"
    /\ receipts[1].previous_hash = Genesis
    /\ receipts[3].previous_hash = receipts[2].hash
    /\ ReceiptChain_verify(receipts)

\* C7: once a stored field (timestamp, record, previous_hash or hash) of an
\* entry that has a successor has been altered, verify() is false and the
\* first break it meets is the link from that entry to the next.
C7_TamperEvident ==
    (tampered # NoTamper /\ tampered.index < Len(receipts)) =>
        /\ ~ReceiptChain_verify(receipts)
        /\ FirstBreak(receipts) = tampered.index + 1

(***************************************************************************)
(* Duke, lines 43-61.  "self.stability_index -= amount" and                *)
(* "self.beta += 1.0" each read the attribute and then write it; degrade   *)
(* and recover take no lock themselves.  A caller sets loc.amount and      *)
(* loc.cont (where it continues) and jumps to "d53" or "r57".              *)
(***************************************************************************)
evaluate(stability_index) == stability_index > 0

\* (mutant) degrade stops at zero
degraded_Floored(stability_index, amount) ==
    IF stability_index - amount > 0 THEN stability_index - amount ELSE 0

degraded(stability_index, amount) == stability_index - amount

\* (mutant) recover does not cap the index
recovered_NoCap(stability_index, amount) == stability_index + amount

recovered(stability_index, amount) ==
    IF stability_index + amount < StabilityMax
       THEN stability_index + amount ELSE StabilityMax

\* alpha / (alpha + beta), in thousandths
bayesian_stability_posterior(alpha, beta) == (alpha * 1000) \div (alpha + beta)

D53(t) ==
    /\ pc[t] = "d53"
    /\ loc' = [loc EXCEPT ![t].tmp = duke.stability_index]
    /\ pc' = [pc EXCEPT ![t] = "d53w"]
    /\ UNCHANGED <<duke_vars, chain_vars, gate_obs, now, nonce_counter,
                   nonce_registry, lock, prog>>

D53w(t) ==
    /\ pc[t] = "d53w"
    /\ duke' = [duke EXCEPT
                  !.stability_index = degraded(loc[t].tmp, loc[t].amount)]
    /\ pc' = [pc EXCEPT ![t] = "d54"]
    /\ UNCHANGED <<guard, events, chain_vars, gate_obs, now, nonce_counter,
                   nonce_registry, lock, prog, loc>>

D54(t) ==
    /\ pc[t] = "d54"
    /\ loc' = [loc EXCEPT ![t].tmp = duke.beta]
    /\ pc' = [pc EXCEPT ![t] = "d54w"]
    /\ UNCHANGED <<duke_vars, chain_vars, gate_obs, now, nonce_counter,
                   nonce_registry, lock, prog>>

D54w(t) ==
    /\ pc[t] = "d54w"
    /\ duke' = [duke EXCEPT !.beta = loc[t].tmp + 1]
    /\ loc' = [loc EXCEPT ![t].tmp = 0, ![t].amount = 0]
    /\ pc' = [pc EXCEPT ![t] = loc[t].cont]
    /\ events' = [events EXCEPT !.degrade = @ + 1]
    /\ UNCHANGED <<guard, chain_vars, gate_obs, now, nonce_counter,
                   nonce_registry, lock, prog>>

R57(t) ==
    /\ pc[t] = "r57"
    /\ loc' = [loc EXCEPT ![t].tmp = duke.stability_index]
    /\ pc' = [pc EXCEPT ![t] = "r57w"]
    /\ UNCHANGED <<duke_vars, chain_vars, gate_obs, now, nonce_counter,
                   nonce_registry, lock, prog>>

R57w(t) ==
    /\ pc[t] = "r57w"
    /\ duke' = [duke EXCEPT
                  !.stability_index = recovered(loc[t].tmp, loc[t].amount)]
    /\ pc' = [pc EXCEPT ![t] = "r58"]
    /\ UNCHANGED <<guard, events, chain_vars, gate_obs, now, nonce_counter,
                   nonce_registry, lock, prog, loc>>

R58(t) ==
    /\ pc[t] = "r58"
    /\ loc' = [loc EXCEPT ![t].tmp = duke.alpha]
    /\ pc' = [pc EXCEPT ![t] = "r58w"]
    /\ UNCHANGED <<duke_vars, chain_vars, gate_obs, now, nonce_counter,
                   nonce_registry, lock, prog>>

R58w(t) ==
    /\ pc[t] = "r58w"
    /\ duke' = [duke EXCEPT !.alpha = loc[t].tmp + 1]
    /\ loc' = [loc EXCEPT ![t].tmp = 0, ![t].amount = 0]
    /\ pc' = [pc EXCEPT ![t] = loc[t].cont]
    /\ events' = [events EXCEPT !.recover = @ + 1]
    /\ UNCHANGED <<guard, chain_vars, gate_obs, now, nonce_counter,
                   nonce_registry, lock, prog>>

(***************************************************************************)
(* GRADDS.evaluate, lines 67-73; the confidence is in thousandths.         *)
(***************************************************************************)
RiskClasses == {"LOW", "MEDIUM", "HIGH", "CRITICAL"}

BaseTier(risk_class) ==
    CASE risk_class = "LOW" -> 1
      [] risk_class = "MEDIUM" -> 2
      [] risk_class = "HIGH" -> 3
      [] risk_class = "CRITICAL" -> 4
      [] OTHER -> 0

TierName(level) == <<"T0", "T1", "T2", "T3", "T4">>[level + 1]

\* str.upper(), on the strings used here
upper(string) ==
    CASE string = "low" -> "LOW"
      [] string = "Critical" -> "CRITICAL"
      [] OTHER -> string

\* (mutant) T0 is escalated like any other tier
GRADDS_evaluate_EscalatesT0(risk_class, bayesian_confidence) ==
    LET base_tier == BaseTier(upper(risk_class))
    IN  IF bayesian_confidence < 300
           THEN TierName(IF base_tier + 1 < 4 THEN base_tier + 1 ELSE 4)
           ELSE TierName(base_tier)

GRADDS_evaluate(risk_class, bayesian_confidence) ==
    LET base_tier == BaseTier(upper(risk_class))
    IN  IF bayesian_confidence < 300 /\ base_tier # 0
           THEN TierName(IF base_tier + 1 < 4 THEN base_tier + 1 ELSE 4)
           ELSE TierName(base_tier)

(***************************************************************************)
(* ID9GovernedRuntime.verify_integrity is called at lines 218, 244 and 264 *)
(* and is not among the methods the source file keeps; it is the           *)
(* reconciliation of the runtime's own chain (lines 152-154).              *)
(***************************************************************************)
verify_integrity == ReceiptChain_verify(receipts)

(***************************************************************************)
(* ContinuityGuardKernel.run(total_steps = GuardSteps), lines 238-268.     *)
(***************************************************************************)
\* (mutant) the loop runs once more than total_steps
G240_OneMore(t) ==
    /\ pc[t] = "g240"
    /\ IF loc[t].i <= GuardSteps
          THEN /\ guard' = [guard EXCEPT !.step_count = @ + 1]
               /\ loc' = [loc EXCEPT ![t].i = @ + 1]
               /\ pc' = [pc EXCEPT ![t] = "g242"]
          ELSE /\ pc' = [pc EXCEPT ![t] = "g266"]
               /\ UNCHANGED <<guard, loc>>
    /\ UNCHANGED <<duke, events, chain_vars, gate_obs, now, nonce_counter,
                   nonce_registry, lock, prog>>

\* for i in range(total_steps): self.step_count += 1
G240(t) ==
    /\ pc[t] = "g240"
    /\ IF loc[t].i < GuardSteps
          THEN /\ guard' = [guard EXCEPT !.step_count = @ + 1]
               /\ loc' = [loc EXCEPT ![t].i = @ + 1]
               /\ pc' = [pc EXCEPT ![t] = "g242"]
          ELSE /\ pc' = [pc EXCEPT ![t] = "g266"]
               /\ UNCHANGED <<guard, loc>>
    /\ UNCHANGED <<duke, events, chain_vars, gate_obs, now, nonce_counter,
                   nonce_registry, lock, prog>>

\* with self.runtime.lock: (acquire)
G242(t) ==
    /\ pc[t] = "g242"
    /\ lock = 0
    /\ lock' = t
    /\ pc' = [pc EXCEPT ![t] = "g243"]
    /\ UNCHANGED <<duke_vars, chain_vars, gate_obs, now, nonce_counter,
                   nonce_registry, prog, loc>>

\* stability_ok = self.runtime.duke.evaluate()
G243(t) ==
    /\ pc[t] = "g243"
    /\ loc' = [loc EXCEPT ![t].stability_ok = evaluate(duke.stability_index)]
    /\ pc' = [pc EXCEPT ![t] = "g244"]
    /\ UNCHANGED <<duke_vars, chain_vars, gate_obs, now, nonce_counter,
                   nonce_registry, lock, prog>>

\* (mutant) the step looks at stability only
G244_IgnoresIntegrity(t) ==
    /\ pc[t] = "g244"
    /\ IF ~loc[t].stability_ok
          THEN /\ loc' = [loc EXCEPT ![t].amount = 30, ![t].cont = "g247"]
               /\ pc' = [pc EXCEPT ![t] = "d53"]
               /\ UNCHANGED guard
          ELSE /\ guard' = [guard EXCEPT !.continuities_maintained = @ + 1]
               /\ loc' = [loc EXCEPT ![t].amount = 2, ![t].cont = "g253"]
               /\ pc' = [pc EXCEPT ![t] = "r57"]
    /\ UNCHANGED <<duke, events, chain_vars, gate_obs, now, nonce_counter,
                   nonce_registry, lock, prog>>

\* integrity_ok = self.runtime.verify_integrity(); the branch of line 245:
\* degrade(0.03), or continuities_maintained += 1 and recover(0.002)
G244(t) ==
    /\ pc[t] = "g244"
    /\ IF ~loc[t].stability_ok \/ ~verify_integrity
          THEN /\ loc' = [loc EXCEPT ![t].amount = 30, ![t].cont = "g247"]
               /\ pc' = [pc EXCEPT ![t] = "d53"]
               /\ UNCHANGED guard
          ELSE /\ guard' = [guard EXCEPT !.continuities_maintained = @ + 1]
               /\ loc' = [loc EXCEPT ![t].amount = 2, ![t].cont = "g253"]
               /\ pc' = [pc EXCEPT ![t] = "r57"]
    /\ UNCHANGED <<duke, events, chain_vars, gate_obs, now, nonce_counter,
                   nonce_registry, lock, prog>>

\* (mutant) an anomaly step does not recover
G247_NoRecover(t) ==
    /\ pc[t] = "g247"
    /\ guard' = [guard EXCEPT !.anomalies_detected = @ + 1]
    /\ pc' = [pc EXCEPT ![t] = "g253"]
    /\ UNCHANGED <<duke, events, chain_vars, gate_obs, now, nonce_counter,
                   nonce_registry, lock, prog, loc>>

\* self.anomalies_detected += 1; self.runtime.duke.recover(0.05)
G247(t) ==
    /\ pc[t] = "g247"
    /\ guard' = [guard EXCEPT !.anomalies_detected = @ + 1]
    /\ loc' = [loc EXCEPT ![t].amount = 50, ![t].cont = "g253"]
    /\ pc' = [pc EXCEPT ![t] = "r57"]
    /\ UNCHANGED <<duke, events, chain_vars, gate_obs, now, nonce_counter,
                   nonce_registry, lock, prog>>

\* (mutant) the lock is kept from one step to the next
G253_KeepsLock(t) ==
    /\ pc[t] = "g253"
    /\ pc' = [pc EXCEPT ![t] = "g240"]
    /\ UNCHANGED <<duke_vars, chain_vars, gate_obs, now, nonce_counter,
                   nonce_registry, lock, prog, loc>>

\* the with block of line 242 is left: the lock is released
G253(t) ==
    /\ pc[t] = "g253"
    /\ lock' = 0
    /\ pc' = [pc EXCEPT ![t] = "g240"]
    /\ UNCHANGED <<duke_vars, chain_vars, gate_obs, now, nonce_counter,
                   nonce_registry, prog, loc>>

\* report = {...}; with self.runtime.lock: self.runtime.receipts.append(...)
G266(t) ==
    /\ pc[t] = "g266"
    /\ lock = 0
    /\ lock' = t
    /\ loc' = [loc EXCEPT ![t].target = "receipts",
                          ![t].record = "continuity_guard_report",
                          ![t].cont = "g267"]
    /\ pc' = [pc EXCEPT ![t] = "a136"]
    /\ UNCHANGED <<duke_vars, chain_vars, gate_obs, now, nonce_counter,
                   nonce_registry, prog>>

\* the with block of line 266 is left; return report
G267(t) ==
    /\ pc[t] = "g267"
    /\ lock' = 0
    /\ pc' = [pc EXCEPT ![t] = "done"]
    /\ UNCHANGED <<duke_vars, chain_vars, gate_obs, now, nonce_counter,
                   nonce_registry, prog, loc>>

(***************************************************************************)
(* GovernanceProver.run_proof_suite(num_simulations = NumSims), lines      *)
(* 198-225, and _simulate_intent, lines 165-196.  The random draws are     *)
(* choices from small sets; amounts are in thousandths.                    *)
(***************************************************************************)
\* the largest adversarial and failure degrade, the smallest recover
AdversarialDegrade == {250}
FailureDegrade == {200}
SuccessRecover == {20}
SimPayloads == {1}
TrustedLifetime == 300
AdversarialLifetime == 150

\* lines 201-204 and 166-175: the draws, the adversarial degrade
P201(t) ==
    /\ pc[t] = "p201"
    /\ IF loc[t].i < NumSims
          THEN \E is_adv \in BOOLEAN, is_byz \in BOOLEAN :
                  IF is_adv
                  THEN /\ \E amount \in AdversarialDegrade :
                             loc' = [loc EXCEPT ![t].is_adversarial = is_adv,
                                                ![t].byzantine = is_byz,
                                                ![t].amount = amount,
                                                ![t].cont = "s175"]
                       /\ pc' = [pc EXCEPT ![t] = "d53"]
                  ELSE /\ loc' = [loc EXCEPT ![t].is_adversarial = is_adv,
                                             ![t].byzantine = is_byz]
                       /\ pc' = [pc EXCEPT ![t] = "s175"]
          ELSE /\ loc' = [loc EXCEPT ![t].target = "proof_receipts",
                                     ![t].record = "proof_report",
                                     ![t].cont = "p224"]
               /\ pc' = [pc EXCEPT ![t] = "a136"]
    /\ UNCHANGED <<duke_vars, chain_vars, gate_obs, now, nonce_counter,
                   nonce_registry, lock, prog>>

\* tier = gradds.evaluate(risk_class, duke.bayesian_stability_posterior());
\* the clock is read for issued_at and expires_at (line 179); then
\* nonce = self.runtime._next_nonce()
S175(t) ==
    /\ pc[t] = "s175"
    /\ \E risk_class \in RiskClasses :
          loc' = [loc EXCEPT
                    ![t].tier = GRADDS_evaluate(risk_class,
                        bayesian_stability_posterior(duke.alpha, duke.beta)),
                    ![t].time = now,
                    ![t].cont = "s183"]
    /\ pc' = [pc EXCEPT ![t] = "n309"]
    /\ UNCHANGED <<duke_vars, chain_vars, gate_obs, now, nonce_counter,
                   nonce_registry, lock, prog>>

\* lines 177-188: the token is built, signed or given the zero signature,
\* and DIR.execute is called with it
S183(t) ==
    /\ pc[t] = "s183"
    /\ \E payload \in SimPayloads, corrupt \in BOOLEAN :
          /\ corrupt => loc[t].byzantine
          /\ LET action == [intent |-> "test_action", payload |-> payload]
                 unsigned ==
                   AuthorityToken(
                       IF loc[t].is_adversarial THEN "adversary"
                                                ELSE "trusted_agent",
                       sha256_dict(action), loc[t].tier, loc[t].time,
                       loc[t].time + (IF loc[t].is_adversarial
                                 THEN AdversarialLifetime
                                 ELSE TrustedLifetime),
                       loc[t].nonce)
             IN  loc' = [loc EXCEPT
                    ![t].action = action,
                    ![t].token =
                        IF corrupt
                           THEN [unsigned EXCEPT !.signature = ZeroSignature]
                           ELSE sign(unsigned, PrivateKey),
                    ![t].before = nonce_registry,
                    ![t].time = now,
                    ![t].tier = NoLocals.tier,
                    ![t].nonce = NoLocals.nonce,
                    ![t].cont = "s190"]
    /\ pc' = [pc EXCEPT ![t] = "x116"]
    /\ UNCHANGED <<duke_vars, chain_vars, gate_obs, now, nonce_counter,
                   nonce_registry, lock, prog>>

\* lines 190-193: recover on success, degrade on failure
S190(t) ==
    /\ pc[t] = "s190"
    /\ IF loc[t].success
          THEN /\ \E amount \in SuccessRecover :
                     loc' = [loc EXCEPT ![t].amount = amount,
                                        ![t].cont = "s195"]
               /\ pc' = [pc EXCEPT ![t] = "r57"]
          ELSE /\ \E amount \in FailureDegrade :
                     loc' = [loc EXCEPT ![t].amount = amount,
                                        ![t].cont = "s195"]
               /\ pc' = [pc EXCEPT ![t] = "d53"]
    /\ UNCHANGED <<duke_vars, chain_vars, gate_obs, now, nonce_counter,
                   nonce_registry, lock, prog>>

\* self.proof_receipts.append({...}); return success; the loop continues
S195(t) ==
    /\ pc[t] = "s195"
    /\ loc' = [loc EXCEPT ![t].target = "proof_receipts",
                          ![t].record = "simulation",
                          ![t].is_adversarial = FALSE,
                          ![t].byzantine = FALSE,
                          ![t].success = FALSE,
                          ![t].i = @ + 1,
                          ![t].cont = "p201"]
    /\ pc' = [pc EXCEPT ![t] = "a136"]
    /\ UNCHANGED <<duke_vars, chain_vars, gate_obs, now, nonce_counter,
                   nonce_registry, lock, prog>>

\* self.runtime.receipts.append({"proof_certificate": signed_proof})
P224(t) ==
    /\ pc[t] = "p224"
    /\ loc' = [loc EXCEPT ![t].target = "receipts",
                          ![t].record = "proof_certificate",
                          ![t].cont = "done"]
    /\ pc' = [pc EXCEPT ![t] = "a136"]
    /\ UNCHANGED <<duke_vars, chain_vars, gate_obs, now, nonce_counter,
                   nonce_registry, lock, prog>>

(***************************************************************************)
(* Spec: the continuity guard runs in one thread while the prover runs its *)
(* proof suite in another, on one runtime.  The token lifetimes of line    *)
(* 179 exceed any clock value below MaxTime, so the clock is held still.   *)
(***************************************************************************)
GuardThread == 1
ProverThread == 2

Init ==
    /\ now = 0
    /\ nonce_counter = 0
    /\ nonce_registry = {}
    /\ lock = 0
    /\ pc = [t \in {GuardThread, ProverThread} |->
                IF t = GuardThread THEN "g240" ELSE "p201"]
    /\ prog = [t \in {GuardThread, ProverThread} |->
                  IF t = GuardThread THEN "guard" ELSE "prover"]
    /\ loc = [t \in {GuardThread, ProverThread} |-> NoLocals]
    /\ last = [t \in {GuardThread, ProverThread} |-> NoCall]
    /\ commits = [n \in 1..NumSims |-> 0]
    /\ tracked = NoToken
    /\ tracked_done = FALSE
    /\ rejected = {}
    /\ returned = <<>>
    /\ receipts = <<>>
    /\ proof_receipts = <<>>
    /\ tampered = NoTamper
    /\ duke = Duke
    /\ guard = ContinuityGuardKernel
    /\ events = NoEvents

Next ==
    \/ \E t \in Threads : G240(t)
    \/ \E t \in Threads : G242(t)
    \/ \E t \in Threads : G243(t)
    \/ \E t \in Threads : G244(t)
    \/ \E t \in Threads : G247(t)
    \/ \E t \in Threads : G253(t)
    \/ \E t \in Threads : G266(t)
    \/ \E t \in Threads : G267(t)
    \/ \E t \in Threads : P201(t)
    \/ \E t \in Threads : S175(t)
    \/ \E t \in Threads : S183(t)
    \/ \E t \in Threads : S190(t)
    \/ \E t \in Threads : S195(t)
    \/ \E t \in Threads : P224(t)
    \/ \E t \in Threads : D53(t)
    \/ \E t \in Threads : D53w(t)
    \/ \E t \in Threads : D54(t)
    \/ \E t \in Threads : D54w(t)
    \/ \E t \in Threads : R57(t)
    \/ \E t \in Threads : R57w(t)
    \/ \E t \in Threads : R58(t)
    \/ \E t \in Threads : R58w(t)
    \/ \E t \in Threads : N309(t)
    \/ \E t \in Threads : N310(t)
    \/ \E t \in Threads : N310w(t)
    \/ \E t \in Threads : N311(t)
    \/ \E t \in Threads : N311x(t)
    \/ \E t \in Threads : N311r(t)
    \/ \E t \in Threads : X116(t)
    \/ \E t \in Threads : X118(t)
    \/ \E t \in Threads : X120(t)
    \/ \E t \in Threads : X122(t)
    \/ \E t \in Threads : X124(t)
    \/ \E t \in Threads : A136(t)
    \/ \E t \in Threads : A137(t)
    \/ \E t \in Threads : A140(t)

Spec == Init /\ [][Next]_vars

\* C6: appends to one chain are atomic under concurrent appenders.  When the
\* guard's summary append and the prover's certificate append act on the
\* runtime's chain in any interleaving, no two entries are built on the same
\* last hash, and the chain verifies.
C6_AppendAtomic ==
    /\ \A i, j \in 1..Len(receipts) :
          i # j => receipts[i].previous_hash # receipts[j].previous_hash
    /\ ReceiptChain_verify(receipts)

\* The steps that write the nonce counter (line 310), the nonce registry
\* (line 124), the stability tracker (lines 53, 54, 57, 58) and the
\* runtime's receipt chain (line 140).
Mutating(t) ==
    \/ pc[t] \in {"n310w", "x124", "d53w", "d54w", "r57w", "r58w"}
    \/ pc[t] = "a140" /\ loc[t].target = "receipts"

\* C9: runtime.lock serializes all mutation of shared state.  A thread that
\* is about to write the nonce counter, the nonce registry, the stability
\* tracker or the runtime's receipt chain holds runtime.lock, so no two
\* threads are at such a write together.
C9_LockSerializes ==
    /\ \A t \in Threads : Mutating(t) => lock = t
    /\ \A t, u \in Threads : Mutating(t) /\ Mutating(u) => t = u

(***************************************************************************)
(* SpecToken: a token is signed with the runtime's key (lines 94-96), one  *)
(* of its fields or its signature is then replaced, or nothing is, and     *)
(* verify (lines 98-107) is called on it with some public key.             *)
(***************************************************************************)
FieldChanges(token) ==
    {[token EXCEPT !.actor = "adversary"],
     [token EXCEPT !.tier = "T4"],
     [token EXCEPT !.issued_at = @ + 1],
     [token EXCEPT !.expires_at = @ + 1],
     [token EXCEPT !.nonce = @ + 1]}
    \cup {[token EXCEPT !.action_hash = sha256_dict(a)] :
             a \in {b \in Actions : sha256_dict(b) # token.action_hash}}

SignatureChanges(token) ==
    {[token EXCEPT !.signature = string] :
        string \in {ZeroSignature, NonHexSignature, EmptySignature,
                    UpperHex(token.signature),
                    hex(Ed25519Sign(OtherKey, to_dict(token))),
                    hex(Ed25519Sign(PrivateKey,
                            to_dict([token EXCEPT !.nonce = @ + 1])))}}

\* token.sign(private_key)
TokenSign(t) ==
    /\ pc[t] = "start"
    /\ prog[t] = "signer"
    /\ \E unsigned \in UnsignedTokens :
          /\ loc' = [loc EXCEPT ![t].token = sign(unsigned, PrivateKey)]
          /\ tracked' = sign(unsigned, PrivateKey)
    /\ pc' = [pc EXCEPT ![t] = "signed"]
    /\ UNCHANGED <<duke_vars, chain_vars, now, nonce_counter, nonce_registry,
                   lock, prog, last, commits, tracked_done, rejected,
                   returned>>

\* one attribute of the token is assigned another value, or none is
TokenAlter(t) ==
    /\ pc[t] = "signed"
    /\ \E altered \in {loc[t].token} \cup FieldChanges(loc[t].token)
                         \cup SignatureChanges(loc[t].token) :
          loc' = [loc EXCEPT ![t].token = altered]
    /\ pc' = [pc EXCEPT ![t] = "held"]
    /\ UNCHANGED <<duke_vars, chain_vars, gate_obs, now, nonce_counter,
                   nonce_registry, lock, prog>>

\* token.verify(public_key)
TokenVerify(t) ==
    /\ pc[t] = "held"
    /\ \E pub \in {PublicKey, public_key(OtherKey)} :
          loc' = [loc EXCEPT ![t].key = pub,
                             ![t].success = verify(loc[t].token, pub),
                             ![t].raised = verify_raises(loc[t].token, pub)]
    /\ pc' = [pc EXCEPT ![t] = "verified"]
    /\ UNCHANGED <<duke_vars, chain_vars, gate_obs, now, nonce_counter,
                   nonce_registry, lock, prog>>

InitToken ==
    /\ now = 0
    /\ nonce_counter = 0
    /\ nonce_registry = {}
    /\ lock = 0
    /\ pc = [t \in {1} |-> "start"]
    /\ prog = [t \in {1} |-> "signer"]
    /\ loc = [t \in {1} |-> NoLocals]
    /\ last = [t \in {1} |-> NoCall]
    /\ commits = [n \in 1..MaxNonce |-> 0]
    /\ tracked = NoToken
    /\ tracked_done = FALSE
    /\ rejected = {}
    /\ returned = <<>>
    /\ receipts = <<>>
    /\ proof_receipts = <<>>
    /\ tampered = NoTamper
    /\ duke = Duke
    /\ guard = ContinuityGuardKernel
    /\ events = NoEvents

NextToken ==
    \/ \E t \in Threads : TokenSign(t)
    \/ \E t \in Threads : TokenAlter(t)
    \/ \E t \in Threads : TokenVerify(t)

SpecToken == InitToken /\ [][NextToken]_vars

\* C12: signature integrity.  verify never raises; a token as signed by the
\* runtime verifies under the runtime's public key; a token one of whose
\* six signed fields was changed after signing, or whose signature was
\* replaced by any other value, does not verify; no token verifies under
\* another key.
C12_SignatureIntegrity ==
    pc[1] = "verified" =>
       /\ loc[1].raised = NoException
       /\ (loc[1].token = tracked /\ loc[1].key = PublicKey)
             => loc[1].success
       /\ to_dict(loc[1].token) # to_dict(tracked) => ~loc[1].success
       /\ loc[1].token.signature # tracked.signature => ~loc[1].success
       /\ loc[1].key # PublicKey => ~loc[1].success

(***************************************************************************)
(* SpecStarve: the continuity guard runs GuardSteps steps in one thread    *)
(* while NumCallers other threads call _next_nonce, MaxCalls calls in all. *)
(* Some thread that can take a step eventually takes one.                  *)
(***************************************************************************)
Issuers == 2..(NumCallers + 1)

InitStarve ==
    /\ now = 0
    /\ nonce_counter = 0
    /\ nonce_registry = {}
    /\ lock = 0
    /\ pc = [t \in {GuardThread} \cup Issuers |->
                IF t = GuardThread THEN "g240" ELSE "idle"]
    /\ prog = [t \in {GuardThread} \cup Issuers |->
                  IF t = GuardThread THEN "guard" ELSE "issuer"]
    /\ loc = [t \in {GuardThread} \cup Issuers |-> NoLocals]
    /\ last = [t \in {GuardThread} \cup Issuers |-> NoCall]
    /\ commits = [n \in 1..MaxNonce |-> 0]
    /\ tracked = NoToken
    /\ tracked_done = FALSE
    /\ rejected = {}
    /\ returned = <<>>
    /\ receipts = <<>>
    /\ proof_receipts = <<>>
    /\ tampered = NoTamper
    /\ duke = Duke
    /\ guard = ContinuityGuardKernel
    /\ events = NoEvents

NextStarve ==
    \/ \E t \in Threads : G240(t)
    \/ \E t \in Threads : G242(t)
    \/ \E t \in Threads : G243(t)
    \/ \E t \in Threads : G244(t)
    \/ \E t \in Threads : G253(t)
    \/ \E t \in Threads : G266(t)
    \/ \E t \in Threads : G267(t)
    \/ \E t \in Threads : R57(t)
    \/ \E t \in Threads : R57w(t)
    \/ \E t \in Threads : R58(t)
    \/ \E t \in Threads : R58w(t)
    \/ \E t \in Threads : A136(t)
    \/ \E t \in Threads : A137(t)
    \/ \E t \in Threads : A140(t)
    \/ \E t \in Threads : NonceCall(t)
    \/ \E t \in Threads : N309(t)
    \/ \E t \in Threads : N310(t)
    \/ \E t \in Threads : N310w(t)
    \/ \E t \in Threads : N311(t)
    \/ \E t \in Threads : N311x(t)
    \/ \E t \in Threads : N311r(t)

SpecStarve == InitStarve /\ [][NextStarve]_vars /\ WF_vars(NextStarve)

\* C13: the guard does not starve other users of the lock.  Between two
\* steps the guard does not hold runtime.lock; a thread waiting for the
\* lock in _next_nonce obtains it and returns its nonce; and the run never
\* deadlocks: the guard finishes and all MaxCalls nonce calls return.
C13_NoStarvation ==
    /\ [](pc[GuardThread] \in {"g240", "g242", "g266", "done"}
             => lock # GuardThread)
    /\ \A t \in Issuers : (pc[t] = "n309") ~> (pc[t] = "n311r")
    /\ <>(pc[GuardThread] = "done" /\ Len(returned) = MaxCalls)

\* C13 witness: the guard has completed a step and waits for the lock to
\* begin its next one, while a thread in _next_nonce holds the lock and has
\* drawn its nonce.
C13_Witness ==
    /\ guard.continuities_maintained >= 1
    /\ guard.step_count = guard.continuities_maintained + 1
    /\ pc[GuardThread] = "g242"
    /\ \E t \in Issuers : lock = t /\ pc[t] = "n311x" /\ loc[t].tmp >= 1

Amounts == {0, 2, 30, 50, 250, 1000}

DukeCall(t) ==
    /\ pc[t] = "idle"
    /\ prog[t] = "duke"
    /\ loc[t].i < MaxDukeCalls
    /\ \E amount \in Amounts, method \in {"degrade", "recover"} :
          /\ loc' = [loc EXCEPT ![t].amount = amount,
                                ![t].a = amount,
                                ![t].old = duke.stability_index,
                                ![t].i = @ + 1,
                                ![t].cont = IF method = "degrade"
                                               THEN "degrade_done"
                                               ELSE "recover_done"]
          /\ pc' = [pc EXCEPT ![t] = IF method = "degrade" THEN "d53"
                                                           ELSE "r57"]
    /\ UNCHANGED <<duke_vars, chain_vars, gate_obs, now, nonce_counter,
                   nonce_registry, lock, prog>>

\* the call has returned; the caller goes on
DukeReturn(t) ==
    /\ pc[t] \in {"degrade_done", "recover_done"}
    /\ pc' = [pc EXCEPT ![t] = "idle"]
    /\ UNCHANGED <<duke_vars, chain_vars, gate_obs, now, nonce_counter,
                   nonce_registry, lock, prog, loc>>

InitDuke ==
    /\ now = 0
    /\ nonce_counter = 0
    /\ nonce_registry = {}
    /\ lock = 0
    /\ pc = [t \in {1} |-> "idle"]
    /\ prog = [t \in {1} |-> "duke"]
    /\ loc = [t \in {1} |-> NoLocals]
    /\ last = [t \in {1} |-> NoCall]
    /\ commits = [n \in 1..MaxNonce |-> 0]
    /\ tracked = NoToken
    /\ tracked_done = FALSE
    /\ rejected = {}
    /\ returned = <<>>
    /\ receipts = <<>>
    /\ proof_receipts = <<>>
    /\ tampered = NoTamper
    /\ duke = Duke
    /\ guard = ContinuityGuardKernel
    /\ events = NoEvents

NextDuke ==
    \/ \E t \in Threads : DukeCall(t)
    \/ \E t \in Threads : DukeReturn(t)
    \/ \E t \in Threads : D53(t)
    \/ \E t \in Threads : D53w(t)
    \/ \E t \in Threads : D54(t)
    \/ \E t \in Threads : D54w(t)
    \/ \E t \in Threads : R57(t)
    \/ \E t \in Threads : R57w(t)
    \/ \E t \in Threads : R58(t)
    \/ \E t \in Threads : R58w(t)

SpecDuke == InitDuke /\ [][NextDuke]_vars

\* C14: stability_index never exceeds 1.0 (StabilityMax): in every state
\* reached from the tracker as constructed by degrade and recover calls
\* with amounts >= 0 the index is at most StabilityMax, and a recover(a)
\* call that has returned left the index at min(StabilityMax, old + a).
C14_UpperBound ==
    /\ duke.stability_index <= StabilityMax
    /\ pc[1] = "recover_done" =>
          duke.stability_index =
             (IF loc[1].old + loc[1].a <= StabilityMax
                 THEN loc[1].old + loc[1].a ELSE StabilityMax)

\* C14 witness: recover(a) has returned on an index that a degrade had
\* lowered, with old + a above StabilityMax, and the index is StabilityMax.
C14_Witness ==
    /\ pc[1] = "recover_done"
    /\ loc[1].old < StabilityMax
    /\ loc[1].old + loc[1].a > StabilityMax
    /\ duke.stability_index = StabilityMax

(***************************************************************************)
(* SpecTier: GRADDS.evaluate is called once with a risk class and a        *)
(* confidence (in thousandths).                                            *)
(***************************************************************************)
RiskInputs ==
    {"LOW", "MEDIUM", "HIGH", "CRITICAL", "low", "Critical", "SEVERE", ""}
Confidences == {0, 100, 299, 300, 301, 500, 909, 1000}

TierCall(t) ==
    /\ pc[t] = "start"
    /\ prog[t] = "classifier"
    /\ loc' = [loc EXCEPT ![t].tier =
                 GRADDS_evaluate(loc[t].risk_class, loc[t].confidence)]
    /\ pc' = [pc EXCEPT ![t] = "classified"]
    /\ UNCHANGED <<duke_vars, chain_vars, gate_obs, now, nonce_counter,
                   nonce_registry, lock, prog>>

InitTier ==
    /\ now = 0
    /\ nonce_counter = 0
    /\ nonce_registry = {}
    /\ lock = 0
    /\ pc = [t \in {1} |-> "start"]
    /\ prog = [t \in {1} |-> "classifier"]
    /\ \E risk_class \in RiskInputs, confidence \in Confidences :
          loc = [t \in {1} |->
                    [NoLocals EXCEPT !.risk_class = risk_class,
                                     !.confidence = confidence]]
    /\ last = [t \in {1} |-> NoCall]
    /\ commits = [n \in 1..MaxNonce |-> 0]
    /\ tracked = NoToken
    /\ tracked_done = FALSE
    /\ rejected = {}
    /\ returned = <<>>
    /\ receipts = <<>>
    /\ proof_receipts = <<>>
    /\ tampered = NoTamper
    /\ duke = Duke
    /\ guard = ContinuityGuardKernel
    /\ events = NoEvents

NextTier == \E t \in Threads : TierCall(t)

SpecTier == InitTier /\ [][NextTier]_vars

\* C15: tier classification.  The base tier is T1 for LOW, T2 for MEDIUM,
\* T3 for HIGH, T4 for CRITICAL (names are recognised in any letter case)
\* and T0 for every other risk class.  With confidence >= 0.3 the result is
\* the base tier; with confidence < 0.3 it is the next tier up, except that
\* T4 stays T4 and T0 stays T0.  The result is one of T0..T4 and never
\* below the base tier.
C15_TierClassification ==
    pc[1] = "classified" =>
       LET risk == loc[1].risk_class
           base == CASE risk \in {"LOW", "low"} -> 1
                     [] risk = "MEDIUM" -> 2
                     [] risk = "HIGH" -> 3
                     [] risk \in {"CRITICAL", "Critical"} -> 4
                     [] OTHER -> 0
           level == CHOOSE k \in 0..5 :
                       loc[1].tier = <<"T0", "T1", "T2", "T3", "T4", "">>[k + 1]
       IN  /\ loc[1].tier \in {"T0", "T1", "T2", "T3", "T4"}
           /\ loc[1].confidence >= 300 => level = base
           /\ (loc[1].confidence < 300 /\ base = 0) => level = 0
           /\ (loc[1].confidence < 300 /\ base \in 1..3) => level = base + 1
           /\ (loc[1].confidence < 300 /\ base = 4) => level = 4
           /\ level >= base

\* C15 witness: CRITICAL with confidence below 0.3 was classified T4.
C15_Witness ==
    /\ pc[1] = "classified"
    /\ loc[1].risk_class = "CRITICAL"
    /\ loc[1].confidence < 300
    /\ loc[1].tier = "T4"

(***************************************************************************)
(* SpecDegrade: one caller calls Duke.degrade(a) MaxDegrades times with a  *)
(* fixed a > 0 and never calls recover, on a tracker as constructed.  The  *)
(* caller goes on as long as it has calls to make.                         *)
(***************************************************************************)
DegradeAmounts == {250, 300, 350, 400, 500, 1000}

DegraderCall(t) ==
    /\ pc[t] = "idle"
    /\ prog[t] = "degrader"
    /\ loc[t].i < loc[t].n
    /\ loc' = [loc EXCEPT ![t].amount = loc[t].a,
                          ![t].old = duke.stability_index,
                          ![t].i = @ + 1,
                          ![t].cont = "degrade_done"]
    /\ pc' = [pc EXCEPT ![t] = "d53"]
    /\ UNCHANGED <<duke_vars, chain_vars, gate_obs, now, nonce_counter,
                   nonce_registry, lock, prog>>

InitDegrade ==
    /\ now = 0
    /\ nonce_counter = 0
    /\ nonce_registry = {}
    /\ lock = 0
    /\ pc = [t \in {1} |-> "idle"]
    /\ prog = [t \in {1} |-> "degrader"]
    /\ \E amount \in DegradeAmounts :
          loc = [t \in {1} |->
                    [NoLocals EXCEPT !.a = amount, !.n = MaxDegrades]]
    /\ last = [t \in {1} |-> NoCall]
    /\ commits = [n \in 1..MaxNonce |-> 0]
    /\ tracked = NoToken
    /\ tracked_done = FALSE
    /\ rejected = {}
    /\ returned = <<>>
    /\ receipts = <<>>
    /\ proof_receipts = <<>>
    /\ tampered = NoTamper
    /\ duke = Duke
    /\ guard = ContinuityGuardKernel
    /\ events = NoEvents

NextDegrade ==
    \/ \E t \in Threads : DegraderCall(t)
    \/ \E t \in Threads : DukeReturn(t)
    \/ \E t \in Threads : D53(t)
    \/ \E t \in Threads : D53w(t)
    \/ \E t \in Threads : D54(t)
    \/ \E t \in Threads : D54w(t)

SpecDegrade == InitDegrade /\ [][NextDegrade]_vars /\ WF_vars(NextDegrade)

\* C18: stability has no lower floor.  With degrade(a) called repeatedly,
\* a > 0 fixed, and no recover, every call lowers stability_index by
\* exactly a, so after i calls it is 1.0 - i * a; it becomes <= 0 after
\* finitely many calls, evaluate() is then false, and stays false through
\* every further degrade, while the index keeps falling.
C18_NoFloor ==
    /\ [](pc[1] = "degrade_done" =>
             /\ duke.stability_index = loc[1].old - loc[1].a
             /\ duke.stability_index < loc[1].old)
    /\ [](pc[1] = "idle" =>
             duke.stability_index = StabilityMax - loc[1].i * loc[1].a)
    /\ <>(~evaluate(duke.stability_index))
    /\ [][~evaluate(duke.stability_index)
             => ~evaluate(duke.stability_index')]_vars

\* C18 witness: a degrade called when the index was already <= 0 has
\* returned and left it lower still.
C18_Witness ==
    /\ pc[1] = "degrade_done"
    /\ loc[1].old <= 0
    /\ duke.stability_index < loc[1].old
    /\ ~evaluate(duke.stability_index)

\* C19: the evidence counters never forget.  In a run of the guard and the
\* prover together, when r recover calls and d degrade calls have
\* completed, alpha = 10 + r and beta = 1 + d: every call's increment is
\* kept.
C19_CountersNeverForget ==
    /\ duke.alpha = AlphaStart + events.recover
    /\ duke.beta = BetaStart + events.degrade

(***************************************************************************)
(* SpecHeal: a caller first degrades the tracker, n calls of degrade(a)    *)
(* for some n <= MaxDegrades; when it has finished, the continuity guard   *)
(* runs GuardSteps steps, alone.  The runtime's chain is empty, or is the  *)
(* forked chain that a concurrent run of guard and prover can leave, on    *)
(* which verify() is false.                                                *)
(***************************************************************************)
DegraderThread == 2

ForkedChain ==
    <<Entry(0, "proof_certificate", Genesis),
      Entry(0, "continuity_guard_report", Genesis)>>

\* guard.run(GuardSteps) is called once the degrading caller has finished
GuardStart(t) ==
    /\ pc[t] = "wait"
    /\ prog[t] = "guard"
    /\ \A u \in Threads \ {t} : pc[u] = "idle" /\ loc[u].i = loc[u].n
    /\ pc' = [pc EXCEPT ![t] = "g240"]
    /\ UNCHANGED <<duke_vars, chain_vars, gate_obs, now, nonce_counter,
                   nonce_registry, lock, prog, loc>>

InitHeal ==
    /\ now = 0
    /\ nonce_counter = 0
    /\ nonce_registry = {}
    /\ lock = 0
    /\ pc = [t \in {GuardThread, DegraderThread} |->
                IF t = GuardThread THEN "wait" ELSE "idle"]
    /\ prog = [t \in {GuardThread, DegraderThread} |->
                  IF t = GuardThread THEN "guard" ELSE "degrader"]
    /\ \E amount \in DegradeAmounts, calls \in 0..MaxDegrades :
          loc = [t \in {GuardThread, DegraderThread} |->
                    IF t = GuardThread
                       THEN NoLocals
                       ELSE [NoLocals EXCEPT !.a = amount, !.n = calls]]
    /\ last = [t \in {GuardThread, DegraderThread} |-> NoCall]
    /\ commits = [n \in 1..MaxNonce |-> 0]
    /\ tracked = NoToken
    /\ tracked_done = FALSE
    /\ rejected = {}
    /\ returned = <<>>
    /\ receipts \in {<<>>, ForkedChain}
    /\ proof_receipts = <<>>
    /\ tampered = NoTamper
    /\ duke = Duke
    /\ guard = ContinuityGuardKernel
    /\ events = NoEvents

NextHeal ==
    \/ \E t \in Threads : DegraderCall(t)
    \/ \E t \in Threads : DukeReturn(t)
    \/ \E t \in Threads : GuardStart(t)
    \/ \E t \in Threads : G240(t)
    \/ \E t \in Threads : G242(t)
    \/ \E t \in Threads : G243(t)
    \/ \E t \in Threads : G244(t)
    \/ \E t \in Threads : G247(t)
    \/ \E t \in Threads : G253(t)
    \/ \E t \in Threads : G266(t)
    \/ \E t \in Threads : G267(t)
    \/ \E t \in Threads : D53(t)
    \/ \E t \in Threads : D53w(t)
    \/ \E t \in Threads : D54(t)
    \/ \E t \in Threads : D54w(t)
    \/ \E t \in Threads : R57(t)
    \/ \E t \in Threads : R57w(t)
    \/ \E t \in Threads : R58(t)
    \/ \E t \in Threads : R58w(t)
    \/ \E t \in Threads : A136(t)
    \/ \E t \in Threads : A137(t)
    \/ \E t \in Threads : A140(t)

SpecHeal == InitHeal /\ [][NextHeal]_vars /\ WF_vars(NextHeal)

\* The index the guard run starts from, and the number of guard steps it
\* takes from there until the index is above zero.
HealStart == StabilityMax - loc[DegraderThread].n * loc[DegraderThread].a
HealSteps == IF HealStart > 0 THEN 0 ELSE (0 - HealStart) \div 20 + 1
BetweenSteps ==
    pc[GuardThread] \in {"g240", "g266", "a136", "a137", "a140", "g267",
                         "done"}

\* C16: each guard step classifies the sampled state exactly once.  After
\* every completed step continuities_maintained + anomalies_detected =
\* step_count; a step is an anomaly exactly when the chain does not verify
\* or the index sampled is <= 0 (on an intact chain: the first HealSteps
\* steps); every step has added 1 to alpha, and every anomaly step 1 to
\* beta, and nothing else has.
C16_StepClassified ==
    BetweenSteps =>
       /\ guard.continuities_maintained + guard.anomalies_detected
             = guard.step_count
       /\ guard.anomalies_detected =
             (IF ~verify_integrity \/ HealSteps >= guard.step_count
                 THEN guard.step_count ELSE HealSteps)
       /\ duke.alpha = AlphaStart + guard.step_count
       /\ duke.beta = BetaStart + loc[DegraderThread].n
                         + guard.anomalies_detected

\* C16 witness: on a healthy tracker whose chain does not verify, every one
\* of the GuardSteps steps was counted as an anomaly and none as a
\* continuity.
C16_Witness ==
    /\ pc[GuardThread] = "done"
    /\ ~verify_integrity
    /\ evaluate(duke.stability_index)
    /\ guard.anomalies_detected = GuardSteps
    /\ guard.continuities_maintained = 0
    /\ duke.beta = BetaStart + loc[DegraderThread].n + GuardSteps

\* C20: the guard heals an unhealthy tracker.  On an intact chain, with no
\* other thread degrading, each anomaly step raises stability_index by a
\* net 0.02; once a step has been counted as a continuity no later step is
\* counted as an anomaly; and a run that starts from an index <= 0 and has
\* more steps than the index needs to rise above zero reaches a state where
\* evaluate() is true and a step has been counted as a continuity.
C20_SelfHeals ==
    /\ []((BetweenSteps /\ ReceiptChain_verify(receipts)
              /\ guard.continuities_maintained = 0)
            => duke.stability_index
                  = HealStart + 20 * guard.anomalies_detected)
    /\ [][(ReceiptChain_verify(receipts)
               /\ guard.continuities_maintained >= 1)
             => guard.anomalies_detected' = guard.anomalies_detected]_vars
    /\ (pc[GuardThread] = "g240" /\ guard.step_count = 0
           /\ ReceiptChain_verify(receipts)
           /\ duke.stability_index <= 0
           /\ duke.stability_index + 20 * (GuardSteps - 1) > 0)
         ~> (evaluate(duke.stability_index)
                /\ guard.continuities_maintained >= 1)

\* C20 witness: on an intact chain the guard met an index <= 0, counted an
\* anomaly, and then, the index being above zero, counted a continuity.
C20_Witness ==
    /\ ReceiptChain_verify(receipts)
    /\ HealStart <= 0
    /\ guard.anomalies_detected >= 1
    /\ guard.continuities_maintained >= 1
    /\ evaluate(duke.stability_index)

=============================================================================
